---- MODULE Spec2Model ----
(***************************************************************************)
(* Holiday Manager (src/app.py): one browser session of the Streamlit      *)
(* script.  The state is the three session tables, the three CSV files and *)
(* what the last script run read and showed.  Every action is one script   *)
(* run: the top-of-script synchronisation (line 51), the page's handler,   *)
(* and, after a successful submit, the rerun the handler asks for.         *)
(*                                                                         *)
(* Text is a sequence of one-character strings, so that ",".join and       *)
(* .split(",") are computed and not assumed to be inverses.  A date is the *)
(* day of January 2024 (1 = Monday 2024-01-01); strftime("%Y-%m-%d")       *)
(* yields its two day digits (the "2024-01-" prefix is the same for every  *)
(* date of the model).  An Assignments cell is [enc, items]: enc = 0 is a  *)
(* Python list of dicts, enc = n > 0 is a str holding the JSON text of the *)
(* enc = n - 1 value.                                                      *)
(***************************************************************************)
EXTENDS Integers, Sequences, FiniteSets, TLC

VARIABLES staffs, teams, schedules, staffs_file, teams_file, schedules_file, run

vars == <<staffs, teams, schedules, staffs_file, teams_file, schedules_file, run>>

(* ------------------------------ bounds -------------------------------- *)
\* rows appended in one session, over the three tables together
MaxRows == 4
\* rows of each input table of the synchroniser's own specification
MaxSyncRows == 2
\* instants per day of the dashboard's clock
TicksPerDay == 2

(* ------------------------------ inputs -------------------------------- *)
EMPTY == <<>>
COMMA == ","
NameInputs == { <<"a">>, <<"b">>, <<"b", ",", "c">> }
TeamNameInputs == { EMPTY, <<"T">> }
PhoneInputs == { <<"1", ",", "2">> }
LocationInputs == { <<"x">> }
ScheduleNameInputs == { <<"s">> }
StartInputs == { 1, 6, 20 }
EndInputs == { 5, 20 }
TodayInputs == { 0, 13 * TicksPerDay, 21 * TicksPerDay }
\* what the selectbox of line 168 returns when it has no option
None == <<"N", "o", "n", "e">>

(* ------------------------------ text ---------------------------------- *)
RECURSIVE join(_, _)
join(sep, parts) ==
    IF Len(parts) = 0 THEN EMPTY
    ELSE IF Len(parts) = 1 THEN parts[1]
    ELSE parts[1] \o <<sep>> \o join(sep, Tail(parts))

RECURSIVE split(_, _)
split(text, sep) ==
    IF \E k \in 1..Len(text) : text[k] = sep
    THEN LET k == CHOOSE j \in 1..Len(text) :
                     text[j] = sep /\ \A h \in 1..(j - 1) : text[h] # sep
         IN  <<SubSeq(text, 1, k - 1)>> \o split(SubSeq(text, k + 1, Len(text)), sep)
    ELSE <<text>>

replace(text, old) == SelectSeq(text, LAMBDA c : c # old)

(* ------------------------------ dates --------------------------------- *)
SATURDAY == 5
DaysPerWeek == 7
weekday(d) == (d - 1) % DaysPerWeek

strftime(d) == <<d \div 10, d % 10>>
to_datetime(s) == (s[1] * 10 + s[2]) * TicksPerDay

RECURSIVE weekly(_, _)
weekly(s, end) == IF s > end THEN <<>> ELSE <<s>> \o weekly(s + DaysPerWeek, end)

\* date_range with the end date left out
date_range_open(start, end) ==
    weekly(start + ((SATURDAY + DaysPerWeek - weekday(start)) % DaysPerWeek), end - 1)

date_range(start, end) ==
    weekly(start + ((SATURDAY + DaysPerWeek - weekday(start)) % DaysPerWeek), end)

(* ------------------------------ storage ------------------------------- *)
json_dumps(cell) == [cell EXCEPT !.enc = @ + 1]
json_loads(cell) == [cell EXCEPT !.enc = @ - 1]
isinstance_str(cell) == cell.enc > 0

save_data(df) ==
    [i \in DOMAIN df |->
        IF "Assignments" \in DOMAIN df[i]
        THEN [df[i] EXCEPT !.Assignments = json_dumps(@)]
        ELSE df[i]]

Absent == [exists |-> FALSE, rows |-> <<>>]
to_csv(df) == [exists |-> TRUE, rows |-> df]

(* --------------------------- synchroniser ----------------------------- *)
\* matching without the filter on Team
matching_all(staffs_df, team_name) == [i \in DOMAIN staffs_df |-> staffs_df[i].Name]

matching(staffs_df, team_name) ==
    LET hit == SelectSeq(staffs_df, LAMBDA s : s.Team = team_name)
    IN  [i \in DOMAIN hit |-> hit[i].Name]

update_team_members(staffs_df, teams_df) ==
    [index \in DOMAIN teams_df |->
        [teams_df[index] EXCEPT
            !.Members = join(COMMA, matching(staffs_df, teams_df[index].Team_Name))]]

(* ----------------------------- script runs ---------------------------- *)
NoMetric == [found |-> FALSE, date |-> EMPTY, staff |-> EMPTY, team |-> EMPTY]

Idle == [form |-> "none", team |-> EMPTY, start |-> 0, end |-> 0, today |-> 0,
         id |-> 0, team_members |-> <<>>, message |-> "", metric |-> NoMetric]

Rows == Len(staffs) + Len(teams) + Len(schedules)

Init ==
    /\ staffs = <<>>
    /\ teams = <<>>
    /\ schedules = <<>>
    /\ staffs_file = Absent
    /\ teams_file = Absent
    /\ schedules_file = Absent
    /\ run = Idle

\* new_id without the + 1
new_id_len(df) == Len(df)

new_id(df) == Len(df) + 1

AddStaff ==
    /\ Rows < MaxRows
    /\ LET synced == update_team_members(staffs, teams)
       IN  \E name \in NameInputs, phone \in PhoneInputs,
              team \in {EMPTY} \cup {synced[i].Team_Name : i \in DOMAIN synced} :
               LET new_staff == [ID |-> new_id(staffs), Name |-> name,
                                 Phone |-> replace(phone, COMMA), Team |-> team]
                   staffs1 == Append(staffs, new_staff)
                   teams1 == update_team_members(staffs1, synced)
               IN  /\ staffs' = save_data(staffs1)
                   /\ staffs_file' = to_csv(staffs')
                   /\ teams_file' = to_csv(save_data(teams1))
                   /\ teams' = update_team_members(staffs', save_data(teams1))
                   /\ run' = [Idle EXCEPT !.form = "add_staff", !.team = team,
                                          !.message = "Staff added successfully!"]
    /\ UNCHANGED <<schedules, schedules_file>>

AddTeam ==
    /\ Rows < MaxRows
    /\ LET synced == update_team_members(staffs, teams)
       IN  \E team_name \in TeamNameInputs, location \in LocationInputs,
              leader \in {EMPTY} \cup {staffs[i].Name : i \in DOMAIN staffs} :
               LET teams1 == Append(synced,
                                 [ID |-> new_id(synced), Team_Name |-> team_name,
                                  Location |-> location, Leader |-> leader,
                                  Members |-> EMPTY])
               IN  /\ teams_file' = to_csv(save_data(teams1))
                   /\ teams' = update_team_members(staffs, save_data(teams1))
                   /\ run' = [Idle EXCEPT !.form = "add_team", !.team = team_name,
                                          !.message = "Team created successfully!"]
    /\ UNCHANGED <<staffs, staffs_file, schedules, schedules_file>>

\* round_robin that stays on the last member instead of wrapping
RECURSIVE round_robin_clamped(_, _, _)
round_robin_clamped(weekend_dates, team_members, i) ==
    IF i >= Len(weekend_dates) THEN <<>>
    ELSE LET saturday == weekend_dates[i + 1]
             sunday == saturday + 1
             staff_member ==
                 team_members[IF i < Len(team_members) THEN i + 1 ELSE Len(team_members)]
         IN  << [Team_Member |-> staff_member, Weekend_Date |-> strftime(saturday),
                 Day |-> "Saturday"],
                [Team_Member |-> staff_member, Weekend_Date |-> strftime(sunday),
                 Day |-> "Sunday"] >>
             \o round_robin_clamped(weekend_dates, team_members, i + 1)

(* the loop of lines 182-186, from position i (0-indexed) on *)
RECURSIVE round_robin(_, _, _)
round_robin(weekend_dates, team_members, i) ==
    IF i >= Len(weekend_dates) THEN <<>>
    ELSE LET saturday == weekend_dates[i + 1]
             sunday == saturday + 1
             staff_member == team_members[(i % Len(team_members)) + 1]
         IN  << [Team_Member |-> staff_member, Weekend_Date |-> strftime(saturday),
                 Day |-> "Saturday"],
                [Team_Member |-> staff_member, Weekend_Date |-> strftime(sunday),
                 Day |-> "Sunday"] >>
             \o round_robin(weekend_dates, team_members, i + 1)

\* dates_valid that lets start_date = end_date through
dates_valid_or_equal(start_date, end_date) == ~(start_date > end_date)

dates_valid(start_date, end_date) == ~(start_date >= end_date)

\* teams[teams["Team Name"] == team].iloc[0]; 0 when no row matches (IndexError)
iloc0(teams_df, team) ==
    IF \E i \in DOMAIN teams_df : teams_df[i].Team_Name = team
    THEN CHOOSE i \in DOMAIN teams_df :
            /\ teams_df[i].Team_Name = team
            /\ \A h \in 1..(i - 1) : teams_df[h].Team_Name # team
    ELSE 0

read_members(team_data) == split(team_data.Members, COMMA)

CreateSchedule ==
    LET synced == update_team_members(staffs, teams)
    IN  \E schedule_name \in ScheduleNameInputs,
           team \in (IF Len(synced) = 0 THEN {None}
                     ELSE {synced[i].Team_Name : i \in DOMAIN synced}),
           start_date \in StartInputs, end_date \in EndInputs :
            LET asked == [Idle EXCEPT !.form = "create_schedule", !.team = team,
                                      !.start = start_date, !.end = end_date]
            IN
            IF ~dates_valid(start_date, end_date)
            THEN /\ teams' = synced
                 /\ run' = [asked EXCEPT
                               !.message = "End date must be after the start date."]
                 /\ UNCHANGED <<staffs, schedules, staffs_file, teams_file,
                                schedules_file>>
            ELSE IF iloc0(synced, team) = 0
            THEN /\ teams' = synced
                 /\ run' = [asked EXCEPT !.message = "IndexError"]
                 /\ UNCHANGED <<staffs, schedules, staffs_file, teams_file,
                                schedules_file>>
            ELSE LET team_data == synced[iloc0(synced, team)]
                     team_members == read_members(team_data)
                     weekend_dates == date_range(start_date, end_date)
                     assignments == round_robin(weekend_dates, team_members, 0)
                     new_schedule ==
                         [ID |-> new_id(schedules), Name |-> schedule_name,
                          Team |-> team, Team_Leader |-> team_data.Leader,
                          Start_Date |-> strftime(start_date),
                          End_Date |-> strftime(end_date),
                          Assignments |-> [enc |-> 0, items |-> assignments]]
                 IN  /\ Rows < MaxRows
                     /\ schedules' = save_data(Append(schedules, new_schedule))
                     /\ schedules_file' = to_csv(schedules')
                     /\ teams' = update_team_members(staffs, synced)
                     /\ run' = [asked EXCEPT !.team_members = team_members,
                                             !.message = "created successfully!"]
                     /\ UNCHANGED <<staffs, staffs_file, teams_file>>

(* ------------------------------ dashboard ----------------------------- *)
\* what lines 71-74 iterate over: the dicts of the cell, none when the cell is
\* still a str after one json.loads (its characters are no dicts)
dicts_of(cell) ==
    LET assignments == IF isinstance_str(cell) THEN json_loads(cell) ELSE cell
    IN  IF isinstance_str(assignments) THEN <<>> ELSE assignments.items

RECURSIVE all_weekend_dates(_, _, _)
all_weekend_dates(schedules_df, today, k) ==
    IF k > Len(schedules_df) THEN <<>>
    ELSE LET schedule == schedules_df[k]
             later == SelectSeq(dicts_of(schedule.Assignments),
                          LAMBDA a : to_datetime(a.Weekend_Date) > today)
         IN  [j \in DOMAIN later |->
                 <<to_datetime(later[j].Weekend_Date), later[j].Team_Member,
                   schedule.Team>>]
             \o all_weekend_dates(schedules_df, today, k + 1)

\* min(..., key=lambda x: x[0]): the first of the smallest
min_by_date(tuples) ==
    tuples[CHOOSE i \in DOMAIN tuples :
              /\ \A j \in DOMAIN tuples : tuples[i][1] <= tuples[j][1]
              /\ \A j \in 1..(i - 1) : tuples[j][1] > tuples[i][1]]

next_upcoming(schedules_df, today) ==
    LET found == all_weekend_dates(schedules_df, today, 1)
    IN  IF Len(schedules_df) = 0 \/ Len(found) = 0 THEN NoMetric
        ELSE LET next_holiday == min_by_date(found)
             IN  [found |-> TRUE, date |-> strftime(next_holiday[1] \div TicksPerDay),
                  staff |-> next_holiday[2], team |-> next_holiday[3]]

Home ==
    /\ \E today \in TodayInputs :
          run' = [Idle EXCEPT !.form = "home", !.today = today,
                              !.metric = next_upcoming(schedules, today)]
    /\ teams' = update_team_members(staffs, teams)
    /\ UNCHANGED <<staffs, schedules, staffs_file, teams_file, schedules_file>>

\* lines 157-163: what the "View Schedule" button shows for one row
view_schedule(schedule) ==
    LET cell == schedule.Assignments
        assignments == IF isinstance_str(cell) THEN json_loads(cell) ELSE cell
    IN  IF isinstance_str(assignments) THEN "ValueError"
        ELSE IF Len(assignments.items) > 0 THEN "table"
        ELSE "No assignments available for this schedule."

View ==
    /\ \E k \in DOMAIN schedules :
          run' = [Idle EXCEPT !.form = "view", !.id = schedules[k].ID,
                              !.message = view_schedule(schedules[k])]
    /\ teams' = update_team_members(staffs, teams)
    /\ UNCHANGED <<staffs, schedules, staffs_file, teams_file, schedules_file>>

Next == AddStaff \/ AddTeam \/ CreateSchedule \/ Home \/ View

Spec == Init /\ [][Next]_vars

(* -------------------- the synchroniser on its own --------------------- *)
(* update_team_members applied once to arbitrary tables: the staff rows    *)
(* may name teams that do not exist and the team rows may carry any stale  *)
(* Members text.                                                           *)
SyncTeamRefs == TeamNameInputs \cup { <<"U">> }
StaleMembers == { EMPTY, <<"z">> }

tables(n, row_set) ==
    UNION { { [i \in 1..k |-> [ID |-> i] @@ f[i]] : f \in [1..k -> row_set] } : k \in 0..n }

SyncStaffTables ==
    tables(MaxSyncRows,
           { [Name |-> n, Phone |-> <<"1">>, Team |-> t] :
                 n \in NameInputs, t \in SyncTeamRefs })

SyncTeamTables ==
    tables(MaxSyncRows,
           { [Team_Name |-> t, Location |-> <<"x">>, Leader |-> EMPTY, Members |-> m] :
                 t \in TeamNameInputs, m \in StaleMembers })

InitSync ==
    /\ staffs \in SyncStaffTables
    /\ teams \in SyncTeamTables
    /\ schedules = <<>>
    /\ staffs_file = Absent
    /\ teams_file = Absent
    /\ schedules_file = Absent
    /\ run = [form |-> "input", teams_df |-> teams]

SyncStep ==
    /\ run.form = "input"
    /\ teams' = update_team_members(staffs, teams)
    /\ run' = [form |-> "sync", teams_df |-> teams]
    /\ UNCHANGED <<staffs, schedules, staffs_file, teams_file, schedules_file>>

NextSync == SyncStep

SpecSync == InitSync /\ [][NextSync]_vars

(* ===================== properties and their checks ==================== *)
(* Reference definitions: what the claims say, written without the model's *)
(* operators.                                                              *)

\* the Names of the staff rows whose Team is team_name, by ascending row index
RefRoster(staffs_df, team_name) ==
    LET idx == { i \in DOMAIN staffs_df : staffs_df[i].Team = team_name }
    IN  [k \in 1..Cardinality(idx) |->
            staffs_df[CHOOSE i \in idx : Cardinality({ j \in idx : j < i }) = k - 1].Name]

\* names written one after the other with a comma between neighbours
RECURSIVE RefJoined(_)
RefJoined(names) ==
    IF names = <<>> THEN <<>>
    ELSE IF Len(names) = 1 THEN names[1]
    ELSE RefJoined(SubSeq(names, 1, Len(names) - 1)) \o <<",">> \o names[Len(names)]

\* the days of start..end that are Saturdays (6, 13, 20, 27 January 2024), ascending
RefSaturdays(start, end) ==
    LET sats == { d \in start..end : d % 7 = 6 }
    IN  [k \in 1..Cardinality(sats) |->
            CHOOSE d \in sats : Cardinality({ e \in sats : e < d }) = k - 1]

\* the day digits of "2024-01-DD"
RefDayText(d) == CHOOSE p \in (0..9) \X (0..9) : 10 * p[1] + p[2] = d
RefDay(text) == CHOOSE d \in 0..99 : RefDayText(d) = text

Created == run.form = "create_schedule" /\ run.message = "created successfully!"
Newest == schedules[Len(schedules)]

\* C1: update_team_members(S, T) sets every team row's Members to the comma-joined
\* Names of exactly the staff rows whose Team is the row's Team Name, in staff
\* order (empty when there is none), and changes no other column of T.
C1_SyncSetsMembers ==
    run.form = "sync" =>
        /\ Len(teams) = Len(run.teams_df)
        /\ \A i \in DOMAIN teams :
              /\ teams[i].Members = RefJoined(RefRoster(staffs, teams[i].Team_Name))
              /\ \A col \in {"ID", "Team_Name", "Location", "Leader"} :
                    teams[i][col] = run.teams_df[i][col]

C1_Witness ==
    /\ run.form = "sync"
    /\ \E i \in DOMAIN teams :
          /\ Len(RefRoster(staffs, teams[i].Team_Name)) = 2
          /\ run.teams_df[i].Members # teams[i].Members
    /\ \E i \in DOMAIN teams :
          /\ RefRoster(staffs, teams[i].Team_Name) = <<>>
          /\ run.teams_df[i].Members # EMPTY
          /\ teams[i].Members = EMPTY

\* C2: the two assignments of the i-th Saturday of the range (0-indexed) carry
\* members[i mod len(members)], the Saturday first and the Sunday (one day later)
\* second, so the sequence is chronological and wraps around the roster.
C2_RoundRobin ==
    Created =>
        LET members == run.team_members
            sats == RefSaturdays(run.start, run.end)
            items == Newest.Assignments.items
        IN  /\ Len(members) > 0
            /\ \A i \in 0..(Len(sats) - 1) :
                  /\ 2 * i + 2 <= Len(items)
                  /\ items[2 * i + 1] =
                        [Team_Member |-> members[(i % Len(members)) + 1],
                         Weekend_Date |-> RefDayText(sats[i + 1]), Day |-> "Saturday"]
                  /\ items[2 * i + 2] =
                        [Team_Member |-> members[(i % Len(members)) + 1],
                         Weekend_Date |-> RefDayText(sats[i + 1] + 1), Day |-> "Sunday"]
            /\ \A k \in 1..(Len(items) - 1) :
                  RefDay(items[k].Weekend_Date) < RefDay(items[k + 1].Weekend_Date)

C2_Witness ==
    /\ Created
    /\ Len(staffs) = 2
    /\ run.team_members = <<staffs[1].Name, staffs[2].Name>>
    /\ staffs[1].Name # staffs[2].Name
    /\ Len(Newest.Assignments.items) = 6
    /\ Newest.Assignments.items[5].Team_Member = staffs[1].Name

\* C3: a generated schedule has exactly two assignments per Saturday S with
\* start <= S <= end, a Saturday equal to start or to end included; a range with
\* no Saturday still yields a schedule, with no assignment.
C3_TwoPerSaturday ==
    Created =>
        Len(Newest.Assignments.items) =
            2 * Cardinality({ d \in run.start..run.end : d % 7 = 6 })

C3_Witness ==
    /\ Created
    /\ Len(schedules) = 2
    /\ schedules[1].Start_Date = <<0, 1>> /\ schedules[1].End_Date = <<0, 5>>
    /\ schedules[1].Assignments.items = <<>>
    /\ run.start = 6 /\ run.end = 20
    /\ run.team_members # <<EMPTY>>
    /\ Len(Newest.Assignments.items) = 6

\* the Members text the handler of a submitted schedule request read
MembersRead == teams[iloc0(teams, run'.team)].Members

\* C4: a schedule request for a team whose Members is empty fails with an
\* InvalidRoster error: no schedule row is appended or written.
C4_EmptyRosterRefused ==
    [][(/\ run'.form = "create_schedule"
        /\ run'.start < run'.end
        /\ iloc0(teams, run'.team) # 0
        /\ MembersRead = EMPTY)
       => /\ run'.message # "created successfully!"
          /\ schedules' = schedules
          /\ schedules_file' = schedules_file]_vars

\* C5: a schedule request with start_date >= end_date changes no table, in the
\* session or in storage, and consumes no schedule ID.
C5_BadDatesRejected ==
    [][(run'.form = "create_schedule" /\ run'.start >= run'.end)
       => /\ run'.message = "End date must be after the start date."
          /\ staffs' = staffs /\ teams' = teams /\ schedules' = schedules
          /\ staffs_file' = staffs_file /\ teams_file' = teams_file
          /\ schedules_file' = schedules_file
          /\ new_id(schedules') = new_id(schedules)]_vars

C5_Witness ==
    /\ run.form = "create_schedule"
    /\ run.start = run.end
    /\ run.message = "End date must be after the start date."
    /\ Len(schedules) > 0 /\ Len(staffs) > 0

\* C6: a schedule row, once created, is never altered by a later operation: its
\* Assignments stay the list of records produced at generation, readable by the
\* schedule view and the dashboard, and its Team Leader stays the copied value.
C6_ScheduleRowsFrozen ==
    [][\A k \in DOMAIN schedules :
          /\ k \in DOMAIN schedules'
          /\ schedules'[k] = schedules[k]
          /\ view_schedule(schedules'[k]) # "ValueError"]_vars

\* C7: the roster a schedule generation reads from the team's Members is the
\* ordered Names of the staff rows currently in the staff table whose Team is the
\* team's Team Name.
C7_RosterIsCurrentStaff ==
    Created => run.team_members = RefRoster(staffs, run.team)

\* the Members text itself is never stale when a schedule is generated
C7_MembersTextCurrent ==
    Created =>
        teams[iloc0(teams, run.team)].Members = RefJoined(RefRoster(staffs, run.team))

\* every assignment of every schedule, as <<schedule index, assignment index>>
RefAssignments ==
    UNION { { <<k, j>> : j \in DOMAIN schedules[k].Assignments.items } :
                k \in DOMAIN schedules }

RefItem(p) == schedules[p[1]].Assignments.items[p[2]]
RefInstant(p) == RefDay(RefItem(p).Weekend_Date) * TicksPerDay
RefLater(now) == { p \in RefAssignments : RefInstant(p) > now }
RefBefore(p, q) == p[1] < q[1] \/ (p[1] = q[1] /\ p[2] < q[2])

\* C8: the dashboard shows the assignment with the least Weekend Date later than
\* now over all assignments of all schedules (the first in schedule order, then
\* assignment order, on equal dates), and no schedule exactly when there is none.
C8_NextUpcoming ==
    run.form = "home" =>
        LET later == RefLater(run.today)
        IN  /\ run.metric.found <=> later # {}
            /\ later # {} =>
                  \E p \in later :
                      /\ \A q \in later : RefInstant(p) <= RefInstant(q)
                      /\ \A q \in later : RefInstant(q) = RefInstant(p) /\ q # p
                                              => RefBefore(p, q)
                      /\ run.metric = [found |-> TRUE,
                                       date |-> RefItem(p).Weekend_Date,
                                       staff |-> RefItem(p).Team_Member,
                                       team |-> schedules[p[1]].Team]

\* the same, in the states where every Assignments cell is a list or its JSON text
C8_NextUpcomingWhenReadable ==
    (\A k \in DOMAIN schedules : schedules[k].Assignments.enc <= 1) => C8_NextUpcoming

\* C9: every persisted team row's Members is the comma-joined ordered Names of the
\* staff rows whose Team is that row's Team Name at the time of the write.
C9_PersistedTeamsSynced ==
    teams_file.exists =>
        \A i \in DOMAIN teams_file.rows :
            teams_file.rows[i].Members =
                RefJoined(RefRoster(staffs, teams_file.rows[i].Team_Name))

\* C10: the ID of the k-th row of each table is k, so IDs are distinct and never
\* reused within a table.
C10_IdIsRowNumber ==
    /\ \A k \in DOMAIN staffs : staffs[k].ID = k
    /\ \A k \in DOMAIN teams : teams[k].ID = k
    /\ \A k \in DOMAIN schedules : schedules[k].ID = k

C10_Witness ==
    /\ Len(staffs) = 1 /\ Len(teams) = 1 /\ Len(schedules) = 2
    /\ schedules[1].ID # schedules[2].ID
====
